---- MODULE Spec2Model ----
(***************************************************************************)
(* State-machine model of the photographer client manager: the            *)
(* client/category repository (ClientManager over Database, SQLite), the   *)
(* configuration (Config) and the handlers of the window that search, add  *)
(* and delete clients.                                                     *)
(*                                                                         *)
(* Text values are sequences of one-character strings; the SQL NULL        *)
(* (Python None) is the one-element sequence NULL, whose element is not a  *)
(* character.  Timestamps are the value of the wall clock in seconds: the  *)
(* code formats them with "%Y-%m-%d %H:%M:%S", a fixed-width format whose  *)
(* text order is the order of the seconds.                                 *)
(***************************************************************************)
EXTENDS Integers, Sequences, FiniteSets, TLC

VARIABLES clients, types, clientSeq, typeSeq, clock, last,
          config_file, config, ui

vars == <<clients, types, clientSeq, typeSeq, clock, last, config_file, config, ui>>

(* The state outside the repository: the configuration and the window. *)
shell == <<config_file, config, ui>>

(***************************************************************************)
(* Bounds of the model.                                                    *)
(***************************************************************************)
MaxClients == 3
MaxClock == 1
MaxAddClients == 2
MaxFieldClients == 1
MaxSearchClients == 2
MaxAvatarClients == 2
MaxStatsClients == 6
MaxWindowClients == 2

(***************************************************************************)
(* Values.                                                                 *)
(***************************************************************************)
NULL == <<"NULL">>

theme_color == <<"#A8E6CF">>

AbsentPath == <<"/", "n">>
FilePath == <<"/", "f">>
DirPath == <<"/", "d">>
PicsPath == <<"/", "p">>
BadPath == <<"/", "b">>
TruncPath == <<"/", "e">>

(* Spec: calls that differ in the category; the optional arguments keep   *)
(* the defaults of the signature (date=None, phone="", email="",           *)
(* notes="").                                                              *)
TypeNames == {NULL, <<"a">>, <<"A">>}
DefaultName == <<"a">>
DefaultDate == NULL
DefaultText == <<>>

(* SpecAdd: the three required arguments vary.                             *)
Names == {NULL, <<>>, <<"a">>}
Folders == {AbsentPath, FilePath, DirPath}

(* SpecFields: every argument varies over accepted values.                 *)
FieldNames == {<<"a">>, <<"b">>}
FieldFolders == {DirPath}
FieldTypeNames == {<<"a">>, <<"A">>}
FieldDates == {NULL, <<"1">>}
FieldPhones == {NULL, <<>>}
FieldEmails == {<<>>, <<"e">>}
FieldNotes == {<<>>, <<"n">>}

(* SpecSearch: the arguments the two listing queries look at vary.         *)
SearchNames == {<<"b">>, <<"a", "b">>}
SearchTypeNames == {<<"n">>, <<"B">>}
SearchDates == {<<"1">>, <<"2">>}
SearchPhones == {NULL, <<"1">>}
SearchEmail == <<"e">>
SearchNotes == {<<>>, <<"e">>}
SearchKeywords ==
    {<<>>, <<"a">>, <<"A">>, <<"b">>, <<"a", "b">>, <<"b", "a">>, <<"e">>,
     <<"1">>, <<"d">>, <<"n">>, <<"_">>, <<"_", "_">>, <<"%">>}

(* SpecAvatar: the folder and the client name, which decide the thumbnail. *)
AvatarNames == {<<"a">>, <<"a", "/", "b">>}
AvatarFolders == {FilePath, DirPath, PicsPath, BadPath, TruncPath}
AvatarTypeName == <<"a">>

(* SpecTypes: the colours update_type_color writes.                        *)
TypeColors == {<<"#", "1">>}

(* SpecStats: the category of the clients added, the client deleted.       *)
StatsTypeNames == {<<"a">>, <<"A">>}
StatsDeleteIds == {2}

(* SpecWindow: the texts of the entries of the add dialog and of the       *)
(* search box.                                                             *)
WindowNames == {<<" ">>, <<" ", "b">>, <<"a", "b">>}
WindowFolders == {AbsentPath, DirPath}
WindowTypeNames == {<<>>, <<"n">>, <<"t", "a", "n">>}
WindowDates == {<<"1">>, <<"2">>}
SearchTexts == {<<>>, <<" ">>, <<"a">>, <<" ", "a", "\t">>, <<"b">>, <<"e">>}

ClientIds == 1..MaxClients

(***************************************************************************)
(* The filesystem the repository looks at: a path is absent, a regular     *)
(* file or a directory; a directory lists its direct entries.  DirPath     *)
(* holds no image, PicsPath a sound one, BadPath a file that is no image   *)
(* under an image name before a sound one, TruncPath a truncated image.    *)
(***************************************************************************)
FsKind(path) ==
    CASE path = FilePath -> "file"
      [] path = DirPath -> "dir"
      [] path = PicsPath -> "dir"
      [] path = BadPath -> "dir"
      [] path = TruncPath -> "dir"
      [] OTHER -> "absent"

FsListing(path) ==
    CASE path = PicsPath -> <<"readme.txt", "shot.JPG">>
      [] path = BadPath -> <<"bad.png", "shot.JPG">>
      [] path = TruncPath -> <<"trunc.gif">>
      [] OTHER -> <<>>

(* The step of the image pipeline that raises for a file: Image.open for a *)
(* file that is no image, convert/resize (which load the pixels) for a     *)
(* truncated one; img.save for a cache file name with a path separator in  *)
(* it, which the client name puts there.                                   *)
ImageFailure(file, client_name) ==
    CASE file = "bad.png" -> "open"
      [] file = "trunc.gif" -> "resize"
      [] \E i \in DOMAIN client_name : client_name[i] = "/" -> "save"
      [] OTHER -> "none"

(* Variant: the existence check lets every path through. *)
os_path_exists_any(path) == TRUE

os_path_exists(path) == FsKind(path) # "absent"

(***************************************************************************)
(* Database.execute_query: one statement per call, committed on success;   *)
(* an error closes the connection without commit and is raised.  A         *)
(* statement result is [err, rows (the table after the statement),         *)
(* seq (the AUTOINCREMENT sequence), rowid (cursor.lastrowid)].            *)
(***************************************************************************)
InsertType(ty, seq, name, color, now) ==
    IF name = NULL \/ \E t \in DOMAIN ty : ty[t].name = name
    THEN [err |-> "IntegrityError", rows |-> ty, seq |-> seq, rowid |-> 0]
    ELSE LET id == seq + 1
             row == [name |-> name, color |-> color, created_at |-> now,
                     client_count |-> 0]
         IN [err |-> "none",
             rows |-> [t \in DOMAIN ty \cup {id} |-> IF t = id THEN row ELSE ty[t]],
             seq |-> id, rowid |-> id]

(* Variant: the INSERT stamps updated_at one second after created_at. *)
InsertClient_shifted(cl, seq, row) ==
    IF row.name = NULL \/ row.folder_path = NULL
    THEN [err |-> "IntegrityError", rows |-> cl, seq |-> seq, rowid |-> 0]
    ELSE LET id == seq + 1
             stored == [row EXCEPT !.updated_at = row.created_at + 1]
         IN [err |-> "none",
             rows |-> [c \in DOMAIN cl \cup {id} |-> IF c = id THEN stored ELSE cl[c]],
             seq |-> id, rowid |-> id]

(* Variant: the id column without AUTOINCREMENT: the new id is one more    *)
(* than the largest id now in the table.                                   *)
InsertClient_rowid(cl, seq, row) ==
    IF row.name = NULL \/ row.folder_path = NULL
    THEN [err |-> "IntegrityError", rows |-> cl, seq |-> seq, rowid |-> 0]
    ELSE LET id == IF DOMAIN cl = {} THEN 1
                   ELSE 1 + CHOOSE c \in DOMAIN cl : \A d \in DOMAIN cl : d <= c
         IN [err |-> "none",
             rows |-> [c \in DOMAIN cl \cup {id} |-> IF c = id THEN row ELSE cl[c]],
             seq |-> id, rowid |-> id]

InsertClient(cl, seq, row) ==
    IF row.name = NULL \/ row.folder_path = NULL
    THEN [err |-> "IntegrityError", rows |-> cl, seq |-> seq, rowid |-> 0]
    ELSE LET id == seq + 1
         IN [err |-> "none",
             rows |-> [c \in DOMAIN cl \cup {id} |-> IF c = id THEN row ELSE cl[c]],
             seq |-> id, rowid |-> id]

(***************************************************************************)
(* ClientManager._get_or_create_type: exact-match lookup by name, insert   *)
(* with the theme colour when absent.                                      *)
(***************************************************************************)
(* Variant: the lookup by name ignores the case of letters. *)
_get_or_create_type_nocase(ty, seq, type_name, now) ==
    LET fold(x) == [i \in DOMAIN x |-> IF x[i] = "A" THEN "a" ELSE x[i]]
        result == {t \in DOMAIN ty : type_name # NULL /\ fold(ty[t].name) = fold(type_name)}
    IN IF result # {}
       THEN [err |-> "none", rows |-> ty, seq |-> seq,
             rowid |-> CHOOSE t \in result : TRUE]
       ELSE InsertType(ty, seq, type_name, theme_color, now)

_get_or_create_type(ty, seq, type_name, now) ==
    LET result == {t \in DOMAIN ty : type_name # NULL /\ ty[t].name = type_name}
    IN IF result # {}
       THEN [err |-> "none", rows |-> ty, seq |-> seq,
             rowid |-> CHOOSE t \in result : TRUE]
       ELSE InsertType(ty, seq, type_name, theme_color, now)

(***************************************************************************)
(* ClientManager._generate_avatar: the first directory entry with an image *)
(* extension (case-insensitive); every failure yields the empty string.    *)
(***************************************************************************)
IsImageFile(file) == file \in {"shot.JPG", "bad.png", "trunc.gif"}

(* Variant: the try block guards the directory listing only, an error of   *)
(* the image pipeline leaves the method.                                   *)
_generate_avatar_unguarded(folder_path, client_name) ==
    IF FsKind(folder_path) # "dir"
    THEN [err |-> "none", path |-> <<>>]
    ELSE LET listing == FsListing(folder_path)
             hits == {i \in 1..Len(listing) : IsImageFile(listing[i])}
             file == listing[CHOOSE i \in hits : \A j \in hits : i <= j]
         IN IF hits = {} THEN [err |-> "none", path |-> <<>>]
            ELSE IF ImageFailure(file, client_name) # "none"
                 THEN [err |-> "OSError", path |-> <<>>]
            ELSE [err |-> "none", path |-> <<"avatar", client_name, file>>]

(* The result is [err (an exception that leaves the method), path]. *)
_generate_avatar(folder_path, client_name) ==
    IF FsKind(folder_path) # "dir"
    THEN [err |-> "none", path |-> <<>>]
    ELSE LET listing == FsListing(folder_path)
             hits == {i \in 1..Len(listing) : IsImageFile(listing[i])}
             file == listing[CHOOSE i \in hits : \A j \in hits : i <= j]
         IN IF hits = {} THEN [err |-> "none", path |-> <<>>]
            ELSE IF ImageFailure(file, client_name) # "none"
                 THEN [err |-> "none", path |-> <<>>]
            ELSE [err |-> "none", path |-> <<"avatar", client_name, file>>]

(***************************************************************************)
(* ClientManager._update_type_count: recount from the clients table.       *)
(***************************************************************************)
_update_type_count(ty, cl, type_id) ==
    [t \in DOMAIN ty |->
        IF t = type_id
        THEN [ty[t] EXCEPT !.client_count =
                 Cardinality({c \in DOMAIN cl : cl[c].type_id = type_id})]
        ELSE ty[t]]

Ret(op, err, val) == [op |-> op, err |-> err, val |-> val]

(***************************************************************************)
(* ClientManager.add_client.                                               *)
(***************************************************************************)
add_client(name, folder_path, type_name, date, phone, email, notes) ==
    /\ UNCHANGED clock
    /\ IF ~os_path_exists(folder_path)
       THEN /\ last' = Ret("add_client", "ValueError", 0)
            /\ UNCHANGED <<clients, types, clientSeq, typeSeq>>
       ELSE LET got == _get_or_create_type(types, typeSeq, type_name, clock)
            IN IF got.err # "none"
               THEN /\ last' = Ret("add_client", got.err, 0)
                    /\ UNCHANGED <<clients, types, clientSeq, typeSeq>>
               ELSE LET type_id == got.rowid
                        avatar == _generate_avatar(folder_path, name)
                        avatar_path == avatar.path
                        now == clock
                        row == [name |-> name, folder_path |-> folder_path,
                                type_id |-> type_id, date |-> date,
                                phone |-> phone, email |-> email,
                                notes |-> notes, avatar_path |-> avatar_path,
                                created_at |-> now, updated_at |-> now]
                        ins == InsertClient(clients, clientSeq, row)
                    IN /\ typeSeq' = got.seq
                       /\ IF avatar.err # "none" \/ ins.err # "none"
                          THEN /\ last' = Ret("add_client",
                                              IF avatar.err # "none" THEN avatar.err
                                              ELSE ins.err, 0)
                               /\ types' = got.rows
                               /\ UNCHANGED <<clients, clientSeq>>
                          ELSE /\ clients' = ins.rows
                               /\ clientSeq' = ins.seq
                               /\ types' = _update_type_count(got.rows, ins.rows, type_id)
                               /\ last' = Ret("add_client", "none", ins.rowid)

(***************************************************************************)
(* Text comparison of the store (BINARY collation: byte order) and the     *)
(* ordering of NULL (smaller than every text).                             *)
(***************************************************************************)
Code(ch) ==
    CASE ch = "%" -> 37  [] ch = "/" -> 47  [] ch = "1" -> 49  [] ch = "2" -> 50
      [] ch = "A" -> 65  [] ch = "B" -> 66  [] ch = "_" -> 95  [] ch = "a" -> 97
      [] ch = "b" -> 98  [] ch = "d" -> 100 [] ch = "e" -> 101 [] ch = "f" -> 102
      [] ch = "n" -> 110 [] ch = "p" -> 112

RECURSIVE TextLess(_, _)
TextLess(a, b) ==
    IF b = <<>> THEN FALSE
    ELSE IF a = <<>> THEN TRUE
    ELSE IF Head(a) = Head(b) THEN TextLess(Tail(a), Tail(b))
    ELSE Code(Head(a)) < Code(Head(b))

SqlLess(a, b) ==
    IF b = NULL THEN FALSE
    ELSE IF a = NULL THEN TRUE
    ELSE TextLess(a, b)

(***************************************************************************)
(* The LIKE operator of the store: % matches any run of characters, _ one  *)
(* character, letters of ASCII match without regard to case; NULL LIKE p   *)
(* is NULL, which a WHERE clause made of ORs treats as false.              *)
(***************************************************************************)
Fold(ch) == CASE ch = "A" -> "a" [] ch = "B" -> "b" [] OTHER -> ch

RECURSIVE LikeMatch(_, _)
LikeMatch(pattern, text) ==
    IF pattern = <<>> THEN text = <<>>
    ELSE IF Head(pattern) = "%"
         THEN \E k \in 0..Len(text) :
                 LikeMatch(Tail(pattern), SubSeq(text, k + 1, Len(text)))
         ELSE /\ text # <<>>
              /\ Head(pattern) = "_" \/ Fold(Head(pattern)) = Fold(Head(text))
              /\ LikeMatch(Tail(pattern), Tail(text))

Like(text, pattern) == text # NULL /\ LikeMatch(pattern, text)

(***************************************************************************)
(* SELECT c.*, t.name, t.color FROM clients c LEFT JOIN types t            *)
(* ON c.type_id = t.id: one row per client, NULLs when no category matches.*)
(***************************************************************************)
JoinRow(c) ==
    LET r == clients[c]
        hit == r.type_id \in DOMAIN types
    IN [id |-> c, name |-> r.name, folder_path |-> r.folder_path,
        type_id |-> r.type_id, date |-> r.date, phone |-> r.phone,
        email |-> r.email, notes |-> r.notes, avatar_path |-> r.avatar_path,
        created_at |-> r.created_at, updated_at |-> r.updated_at,
        type_name |-> IF hit THEN types[r.type_id].name ELSE NULL,
        type_color |-> IF hit THEN types[r.type_id].color ELSE NULL]

Range(s) == {s[i] : i \in DOMAIN s}

(* Every listing of the rows of S, each row once. *)
Listings(S) ==
    {s \in [1..Cardinality(S) -> S] : \A i, j \in DOMAIN s : i # j => s[i] # s[j]}

(***************************************************************************)
(* ClientManager.get_all_clients: ORDER BY c.date DESC, c.name.  Rows the  *)
(* ORDER BY does not separate come in an order the store chooses, so the   *)
(* operator is the set of results the call can return.                     *)
(***************************************************************************)
get_all_clients ==
    LET rows == {JoinRow(c) : c \in DOMAIN clients}
    IN {s \in Listings(rows) :
          \A i, j \in DOMAIN s : i < j =>
             /\ ~SqlLess(s[i].date, s[j].date)
             /\ s[i].date = s[j].date => ~SqlLess(s[j].name, s[i].name)}

(***************************************************************************)
(* ClientManager.search_clients: the keyword wrapped in %, matched against *)
(* name, phone, notes or category name; ORDER BY c.date DESC only.         *)
(***************************************************************************)
(* Variant: the WHERE clause joins the four LIKE tests with AND. *)
search_clients_and(keyword) ==
    LET search_term == <<"%">> \o keyword \o <<"%">>
        rows == {r \in {JoinRow(c) : c \in DOMAIN clients} :
                    /\ Like(r.name, search_term)
                    /\ Like(r.phone, search_term)
                    /\ Like(r.notes, search_term)
                    /\ Like(r.type_name, search_term)}
    IN {s \in Listings(rows) :
          \A i, j \in DOMAIN s : i < j => ~SqlLess(s[i].date, s[j].date)}

(* Variant: the WHERE clause also tests the email column. *)
search_clients_email(keyword) ==
    LET search_term == <<"%">> \o keyword \o <<"%">>
        rows == {r \in {JoinRow(c) : c \in DOMAIN clients} :
                    \/ Like(r.name, search_term)
                    \/ Like(r.phone, search_term)
                    \/ Like(r.email, search_term)
                    \/ Like(r.notes, search_term)
                    \/ Like(r.type_name, search_term)}
    IN {s \in Listings(rows) :
          \A i, j \in DOMAIN s : i < j => ~SqlLess(s[i].date, s[j].date)}

search_clients(keyword) ==
    LET search_term == <<"%">> \o keyword \o <<"%">>
        rows == {r \in {JoinRow(c) : c \in DOMAIN clients} :
                    \/ Like(r.name, search_term)
                    \/ Like(r.phone, search_term)
                    \/ Like(r.notes, search_term)
                    \/ Like(r.type_name, search_term)}
    IN {s \in Listings(rows) :
          \A i, j \in DOMAIN s : i < j => ~SqlLess(s[i].date, s[j].date)}

(***************************************************************************)
(* ClientManager.get_client_by_id: result[0] if result else None.          *)
(***************************************************************************)
None == [None |-> TRUE]

(* Variant: result[0] whatever the result. *)
get_client_by_id_unguarded(client_id) ==
    LET result == {JoinRow(c) : c \in {d \in DOMAIN clients : d = client_id}}
    IN IF result # {} THEN CHOOSE r \in result : TRUE ELSE [IndexError |-> TRUE]

get_client_by_id(client_id) ==
    LET result == {JoinRow(c) : c \in {d \in DOMAIN clients : d = client_id}}
    IN IF result # {} THEN CHOOSE r \in result : TRUE ELSE None

(***************************************************************************)
(* ClientManager.get_types: SELECT * FROM types ORDER BY client_count DESC.*)
(***************************************************************************)
TypeRow(t) ==
    [id |-> t, name |-> types[t].name, color |-> types[t].color,
     created_at |-> types[t].created_at, client_count |-> types[t].client_count]

(* Variant: ORDER BY client_count, smallest first. *)
get_types_ascending ==
    {s \in Listings({TypeRow(t) : t \in DOMAIN types}) :
        \A i, j \in DOMAIN s : i < j => s[i].client_count <= s[j].client_count}

get_types ==
    {s \in Listings({TypeRow(t) : t \in DOMAIN types}) :
        \A i, j \in DOMAIN s : i < j => s[i].client_count >= s[j].client_count}

(***************************************************************************)
(* Database.execute_query on the statement update_client builds,           *)
(* "UPDATE clients SET <set_clause>, updated_at = ? WHERE id = ?": the     *)
(* statement is compiled (syntax, column names), then the parameters are   *)
(* bound by position (their number must be the number of placeholders),    *)
(* then the row whose id is the last placeholder's value is rewritten.     *)
(***************************************************************************)
ClientColumns ==
    {"id", "name", "folder_path", "type_id", "date", "phone", "email", "notes",
     "avatar_path", "created_at", "updated_at"}

UpdateClients(cl, set_clause, params) ==
    LET n == Len(set_clause)
        fail(e) == [err |-> e, rows |-> cl]
    IN IF n = 0 THEN fail("OperationalError")
       ELSE IF \E i \in 1..n : set_clause[i] \notin ClientColumns
            THEN fail("OperationalError")
       ELSE IF Len(params) # n + 2 THEN fail("ProgrammingError")
       ELSE IF \E i \in 1..n : /\ set_clause[i] \in {"name", "folder_path"}
                                /\ params[i] = NULL
                                /\ params[n + 2] \in DOMAIN cl
            THEN fail("IntegrityError")
       ELSE [err |-> "none",
             rows |-> [c \in DOMAIN cl |->
                 IF c # params[n + 2] THEN cl[c]
                 ELSE [col \in DOMAIN cl[c] |->
                         IF \E i \in 1..n : set_clause[i] = col
                         THEN params[CHOOSE i \in 1..n : set_clause[i] = col]
                         ELSE IF col = "updated_at" THEN params[n + 1]
                         ELSE cl[c][col]]]]

(***************************************************************************)
(* ClientManager.update_client: kwargs is the sequence of (field, value)   *)
(* pairs in the order of the call.                                         *)
(***************************************************************************)
(* Variant: client_id is bound once, to the placeholder of WHERE id = ?.    *)
update_client_once(client_id, kwargs) ==
    LET set_clause == [i \in 1..Len(kwargs) |-> kwargs[i][1]]
        values == [i \in 1..Len(kwargs) |-> kwargs[i][2]]
        params == (values \o <<clock>>) \o <<client_id>>
        upd == UpdateClients(clients, set_clause, params)
    IN /\ clients' = upd.rows
       /\ last' = Ret("update_client", upd.err, 0)
       /\ UNCHANGED <<types, clientSeq, typeSeq, clock>>

(* Variant: an empty field set is turned into a statement that only        *)
(* refreshes updated_at.                                                   *)
update_client_touch(client_id, kwargs) ==
    LET set_clause == [i \in 1..Len(kwargs) |-> kwargs[i][1]]
        values == [i \in 1..Len(kwargs) |-> kwargs[i][2]]
        params == ((values \o <<client_id>>) \o <<clock>>) \o <<client_id>>
        upd == IF kwargs = <<>>
               THEN [err |-> "none",
                     rows |-> [c \in DOMAIN clients |->
                                 IF c = client_id
                                 THEN [clients[c] EXCEPT !.updated_at = clock]
                                 ELSE clients[c]]]
               ELSE UpdateClients(clients, set_clause, params)
    IN /\ clients' = upd.rows
       /\ last' = Ret("update_client", upd.err, 0)
       /\ UNCHANGED <<types, clientSeq, typeSeq, clock>>

update_client(client_id, kwargs) ==
    LET set_clause == [i \in 1..Len(kwargs) |-> kwargs[i][1]]
        values == [i \in 1..Len(kwargs) |-> kwargs[i][2]]
        params == ((values \o <<client_id>>) \o <<clock>>) \o <<client_id>>
        upd == UpdateClients(clients, set_clause, params)
    IN /\ clients' = upd.rows
       /\ last' = Ret("update_client", upd.err, 0)
       /\ UNCHANGED <<types, clientSeq, typeSeq, clock>>

(***************************************************************************)
(* ClientManager.delete_client.                                            *)
(***************************************************************************)
(* Variant: the delete also recounts every category. *)
delete_client_recount(client_id) ==
    /\ clients' = [c \in DOMAIN clients \ {client_id} |-> clients[c]]
    /\ types' = [t \in DOMAIN types |->
                   [types[t] EXCEPT !.client_count =
                       Cardinality({c \in DOMAIN clients' : clients'[c].type_id = t})]]
    /\ last' = Ret("delete_client", "none", 0)
    /\ UNCHANGED <<clientSeq, typeSeq, clock>>

delete_client(client_id) ==
    /\ clients' = [c \in DOMAIN clients \ {client_id} |-> clients[c]]
    /\ last' = Ret("delete_client", "none", 0)
    /\ UNCHANGED <<types, clientSeq, typeSeq, clock>>

(***************************************************************************)
(* ClientManager.update_type_color:                                        *)
(* UPDATE types SET color = ? WHERE id = ?.                                *)
(***************************************************************************)
update_type_color(type_id, color) ==
    /\ types' = [t \in DOMAIN types |->
                   IF t = type_id THEN [types[t] EXCEPT !.color = color] ELSE types[t]]
    /\ last' = Ret("update_type_color", "none", 0)
    /\ UNCHANGED <<clients, clientSeq, typeSeq, clock>>

(***************************************************************************)
(* ClientManager.get_stats.  ORDER BY created_at DESC LIMIT 5 begins with  *)
(* a row no other row is newer than and goes on with the rest; rows of one *)
(* created_at come in an order the store chooses.                          *)
(***************************************************************************)
RecentLimit == 5

RECURSIVE NewestFirst(_, _)
NewestFirst(S, limit) ==
    IF limit = 0 \/ S = {} THEN {<<>>}
    ELSE LET newest == {d \in S : \A e \in S :
                          clients[e].created_at <= clients[d].created_at}
             (* clients of one name and created_at give the same result row: *)
             (* one of them stands for all                                   *)
             next == {d \in newest : \A e \in newest :
                        clients[e].name = clients[d].name => d <= e}
         IN UNION {{<<c>> \o r : r \in NewestFirst(S \ {c}, limit - 1)} : c \in next}

(* Variant: the recent clients are taken oldest first. *)
get_stats_oldest ==
    LET OldestFirst == {[i \in DOMAIN r |-> r[Len(r) + 1 - i]] :
                           r \in NewestFirst(DOMAIN clients, Cardinality(DOMAIN clients))}
    IN {[total_clients |-> Cardinality(DOMAIN clients),
         type_distribution |-> d,
         recent_clients |-> [i \in 1..(IF Len(r) < RecentLimit THEN Len(r) ELSE RecentLimit) |->
                               <<clients[r[i]].name, clients[r[i]].created_at>>]] :
           d \in {s \in Listings({<<types[t].name, types[t].client_count>> : t \in DOMAIN types}) :
                     \A i, j \in DOMAIN s : i < j => s[i][2] >= s[j][2]},
           r \in OldestFirst}

get_stats ==
    {[total_clients |-> Cardinality(DOMAIN clients),
      type_distribution |-> d,
      recent_clients |-> [i \in DOMAIN r |->
                            <<clients[r[i]].name, clients[r[i]].created_at>>]] :
        d \in {s \in Listings({<<types[t].name, types[t].client_count>> : t \in DOMAIN types}) :
                  \A i, j \in DOMAIN s : i < j => s[i][2] >= s[j][2]},
        r \in NewestFirst(DOMAIN clients, RecentLimit)}

(***************************************************************************)
(* Config.  A value of the configuration is None, a text [str |-> s], a    *)
(* boolean [bool |-> b], a list [list |-> l] or an object [dict |-> d], d  *)
(* a function from keys to values.  The file config.json is absent, holds  *)
(* text that is no JSON, or holds the JSON text of a value; json.dump and  *)
(* json.load carry these values unchanged.                                 *)
(***************************************************************************)
Str(s) == [str |-> s]
Bool(b) == [bool |-> b]
Dict(d) == [dict |-> d]

ConfigKeys ==
    {"nas_path", "card_size", "sort_by", "view_mode", "auto_backup",
     "backup_path", "last_opened"}

default_config ==
    Dict([key \in ConfigKeys |->
            CASE key = "nas_path" -> Str("")
              [] key = "card_size" -> Str("medium")
              [] key = "sort_by" -> Str("date")
              [] key = "view_mode" -> Str("grid")
              [] key = "auto_backup" -> Bool(TRUE)
              [] key = "backup_path" -> Str("backups")
              [] key = "last_opened" -> None])

AbsentFile == [absent |-> TRUE]
GarbageFile == [garbage |-> TRUE]
JsonFile(value) == [json |-> value]

load_config(file) ==
    IF file # AbsentFile
    THEN IF "json" \in DOMAIN file THEN file.json ELSE default_config
    ELSE default_config

save_config(value) == JsonFile(value)

(* Config.get: self.config.get(key, default). *)
get(key, default) ==
    IF "dict" \in DOMAIN config
    THEN [err |-> "none",
          val |-> IF key \in DOMAIN config.dict THEN config.dict[key] ELSE default]
    ELSE [err |-> "AttributeError", val |-> None]

(* Config.set: self.config[key] = value; self.save_config(). *)
set(key, value) ==
    IF "dict" \in DOMAIN config
    THEN /\ config' = Dict([k \in DOMAIN config.dict \cup {key} |->
                              IF k = key THEN value ELSE config.dict[k]])
         /\ config_file' = save_config(config')
         /\ last' = Ret("set", "none", None)
    ELSE /\ last' = Ret("set", "TypeError", None)
         /\ UNCHANGED <<config, config_file>>

(***************************************************************************)
(* The window.  ui.grid is the sequence of the cards laid out in the grid, *)
(* each the dictionary refresh_client_grid built for it; ui.calls lists    *)
(* the calls the last handler made to the ClientManager; ui.error is the   *)
(* exception that left the last handler, ui.messagebox the last message    *)
(* box it showed.                                                          *)
(***************************************************************************)
Whitespace == {" ", "\t"}

RECURSIVE lstrip(_)
lstrip(text) ==
    IF text # <<>> /\ Head(text) \in Whitespace THEN lstrip(Tail(text)) ELSE text

RECURSIVE rstrip(_)
rstrip(text) ==
    IF text # <<>> /\ text[Len(text)] \in Whitespace
    THEN rstrip(SubSeq(text, 1, Len(text) - 1))
    ELSE text

(* str.strip() *)
strip(text) == rstrip(lstrip(text))

(* An optional argument that was given. *)
Some(value) == [value |-> value]

Call(fn) == [fn |-> fn]
CallWith(fn, arg) == [fn |-> fn, arg |-> arg]

(* The colours Tk accepts: #rgb forms and the names of its colour table.  *)
TkColorNames == {<<"t", "a", "n">>}
IsTkColor(color) == color # <<>> /\ (Head(color) = "#" \/ color \in TkColorNames)

(* The dictionary refresh_client_grid builds from a row of the query: the  *)
(* row has the eleven columns of clients, then t.name, then t.color, and   *)
(* is read by position, 'type_name' from position 10 and 'type_color'      *)
(* from position 11.                                                       *)
client_dict(client_data) ==
    [id |-> client_data.id, name |-> client_data.name,
     folder_path |-> client_data.folder_path, type_id |-> client_data.type_id,
     date |-> client_data.date, phone |-> client_data.phone,
     email |-> client_data.email, notes |-> client_data.notes,
     avatar_path |-> client_data.avatar_path,
     type_name |-> client_data.updated_at,
     type_color |-> client_data.type_name]

(* Card.setup_ui: the title bar takes client_data['type_color'] as its     *)
(* background (an option that is None is left out); Tk raises TclError on  *)
(* a text that is no colour.  The rest of the card cannot fail.            *)
Card(card) ==
    IF card.type_color = NULL \/ IsTkColor(card.type_color) THEN "none" ELSE "TclError"

(* PhotographerClientManager.refresh_type_list *)
refresh_type_list ==
    {[i \in DOMAIN s |-> <<s[i].name, s[i].client_count>>] : s \in get_types}

(* PhotographerClientManager.refresh_client_grid: the cards in the grid    *)
(* are destroyed, then one card per row is built and laid out; the first   *)
(* card that cannot be built ends the refresh with its exception, before   *)
(* the labels are updated with len(clients).                               *)
refresh_client_grid(given) ==
    LET fetch == given = None
        lists == IF fetch THEN get_all_clients ELSE {given.value}
    IN {LET cards == [i \in DOMAIN l |-> client_dict(l[i])]
            bad == {i \in DOMAIN cards : Card(cards[i]) # "none"}
            stop == IF bad = {} THEN Len(cards) + 1
                    ELSE CHOOSE i \in bad : \A j \in bad : i <= j
        IN [err |-> IF bad = {} THEN "none" ELSE "TclError",
            grid |-> SubSeq(cards, 1, stop - 1),
            len |-> Len(l),
            calls |-> IF fetch THEN <<Call("get_all_clients")>> ELSE <<>>] :
          l \in lists}

(* PhotographerClientManager.on_search, run on every write of search_var.  *)
on_search(text) ==
    LET keyword == strip(text)
    IN /\ UNCHANGED <<clients, types, clientSeq, typeSeq, clock, last, config_file, config>>
       /\ IF keyword # <<>>
          THEN \E found \in search_clients(keyword) :
                 \E shown \in refresh_client_grid(Some(found)) :
                    ui' = [ui EXCEPT !.search_var = text, !.grid = shown.grid,
                                     !.count_label = IF shown.err = "none" THEN shown.len ELSE @,
                                     !.error = shown.err,
                                     !.calls = <<CallWith("search_clients", keyword)>>
                                               \o shown.calls]
          ELSE \E shown \in refresh_client_grid(None) :
                  ui' = [ui EXCEPT !.search_var = text, !.grid = shown.grid,
                                   !.count_label = IF shown.err = "none" THEN shown.len ELSE @,
                                   !.error = shown.err, !.calls = shown.calls]

(* confirm_add of show_add_dialog: the entries are trimmed and checked,    *)
(* a category that is new is confirmed with the user (askyesno), the       *)
(* client is added and both views are refreshed; any exception of these    *)
(* calls ends in an error box.                                             *)
confirm_add(name_entry, folder_path_var, type_entry, date_entry, askyesno) ==
    LET name == strip(name_entry)
        folder_path == strip(folder_path_var)
        type_name == strip(type_entry)
        date == strip(date_entry)
        existing_types == {types[t].name : t \in DOMAIN types}
        Rejected == /\ ui' = [ui EXCEPT !.messagebox = "showerror", !.error = "none",
                                        !.calls = <<>>]
                    /\ UNCHANGED <<clients, types, clientSeq, typeSeq, clock, last>>
    IN /\ UNCHANGED <<config_file, config>>
       /\ IF name = <<>> THEN Rejected
          ELSE IF folder_path = <<>> \/ ~os_path_exists(folder_path) THEN Rejected
          ELSE IF type_name = <<>> THEN Rejected
          ELSE IF type_name \notin existing_types /\ ~askyesno
          THEN /\ ui' = [ui EXCEPT !.messagebox = "askyesno", !.error = "none",
                                   !.calls = <<Call("get_types")>>]
               /\ UNCHANGED <<clients, types, clientSeq, typeSeq, clock, last>>
          ELSE /\ add_client(name, folder_path, type_name, date, DefaultText,
                             DefaultText, DefaultText)
               /\ IF last'.err # "none"
                  THEN ui' = [ui EXCEPT !.messagebox = "showerror", !.error = "none",
                                        !.calls = <<Call("get_types"), Call("add_client")>>]
                  ELSE \E listed \in refresh_type_list', shown \in refresh_client_grid(None)' :
                          ui' = [ui EXCEPT
                                   !.type_listbox = listed,
                                   !.grid = shown.grid,
                                   !.count_label = IF shown.err = "none" THEN shown.len ELSE @,
                                   !.error = "none",
                                   !.messagebox = IF shown.err = "none" THEN "showinfo"
                                                  ELSE "showerror",
                                   !.calls = <<Call("get_types"), Call("add_client"),
                                               Call("get_types")>> \o shown.calls]

(* PhotographerClientManager.delete_client, the handler of the context     *)
(* menu.                                                                   *)
window_delete_client(client_id, askyesno) ==
    LET client == get_client_by_id(client_id)
    IN /\ UNCHANGED <<config_file, config>>
       /\ IF client = None
          THEN /\ ui' = [ui EXCEPT !.error = "none",
                                   !.calls = <<CallWith("get_client_by_id", client_id)>>]
               /\ UNCHANGED <<clients, types, clientSeq, typeSeq, clock, last>>
          ELSE IF ~askyesno
          THEN /\ ui' = [ui EXCEPT !.error = "none", !.messagebox = "askyesno",
                                   !.calls = <<CallWith("get_client_by_id", client_id)>>]
               /\ UNCHANGED <<clients, types, clientSeq, typeSeq, clock, last>>
          ELSE /\ delete_client(client_id)
               /\ \E listed \in refresh_type_list', shown \in refresh_client_grid(None)' :
                     ui' = [ui EXCEPT
                              !.type_listbox = listed,
                              !.grid = shown.grid,
                              !.count_label = IF shown.err = "none" THEN shown.len ELSE @,
                              !.error = "none",
                              !.messagebox = IF shown.err = "none" THEN "showinfo"
                                             ELSE "showerror",
                              !.calls = <<CallWith("get_client_by_id", client_id),
                                          CallWith("delete_client", client_id),
                                          Call("get_types")>> \o shown.calls]

(* Initial window: load_data on the empty database. *)
InitUi ==
    [search_var |-> <<>>, grid |-> <<>>, count_label |-> 0, type_listbox |-> <<>>,
     error |-> "none", messagebox |-> "none",
     calls |-> <<Call("get_types"), Call("get_all_clients")>>]

(***************************************************************************)
(* The wall clock advances between calls.                                  *)
(***************************************************************************)
Tick ==
    /\ clock < MaxClock
    /\ clock' = clock + 1
    /\ UNCHANGED <<clients, types, clientSeq, typeSeq, last>>
    /\ UNCHANGED shell

Init ==
    /\ clients = <<>>
    /\ types = <<>>
    /\ clientSeq = 0
    /\ typeSeq = 0
    /\ clock = 0
    /\ last = Ret("init", "none", 0)
    /\ config_file = AbsentFile
    /\ config = load_config(config_file)
    /\ ui = InitUi

(***************************************************************************)
(* Calls of update_client: no field, one field, two fields.                *)
(***************************************************************************)
TypeIds == 1..2

KwargsSet ==
    {<<>>, << <<"phone", <<"p">>>> >>}
    \cup {<< <<"type_id", t>> >> : t \in TypeIds}
    \cup {<< <<"name", <<"b">>>>, <<"type_id", t>> >> : t \in TypeIds}

AddTyped ==
    /\ clientSeq < MaxClients
    /\ \E type_name \in TypeNames :
          add_client(DefaultName, DirPath, type_name, DefaultDate, DefaultText,
                     DefaultText, DefaultText)
    /\ UNCHANGED shell

Update ==
    /\ \E client_id \in ClientIds, kwargs \in KwargsSet : update_client(client_id, kwargs)
    /\ UNCHANGED shell

Delete ==
    /\ \E client_id \in ClientIds : delete_client(client_id)
    /\ UNCHANGED shell

Next == AddTyped \/ Update \/ Delete \/ Tick

Spec == Init /\ [][Next]_vars

(***************************************************************************)
(* SpecAdd: calls of add_client that differ in the required arguments.     *)
(***************************************************************************)
AddRequired ==
    /\ clientSeq < MaxAddClients
    /\ \E name \in Names, folder_path \in Folders, type_name \in TypeNames :
          add_client(name, folder_path, type_name, DefaultDate, DefaultText,
                     DefaultText, DefaultText)
    /\ UNCHANGED shell

NextAdd == AddRequired \/ Tick

SpecAdd == Init /\ [][NextAdd]_vars

(***************************************************************************)
(* SpecFields: calls of add_client with every argument given.              *)
(***************************************************************************)
AddFields ==
    /\ clientSeq < MaxFieldClients
    /\ \E name \in FieldNames, folder_path \in FieldFolders,
          type_name \in FieldTypeNames, date \in FieldDates,
          phone \in FieldPhones, email \in FieldEmails, notes \in FieldNotes :
          add_client(name, folder_path, type_name, date, phone, email, notes)
    /\ UNCHANGED shell

NextFields == AddFields \/ Tick

SpecFields == Init /\ [][NextFields]_vars

(***************************************************************************)
(* SpecSearch: stores for the listing queries; the clock plays no part in  *)
(* them and stands still.                                                  *)
(***************************************************************************)
AddSearch ==
    /\ clientSeq < MaxSearchClients
    /\ \E name \in SearchNames, type_name \in SearchTypeNames,
          date \in SearchDates, phone \in SearchPhones, notes \in SearchNotes :
          add_client(name, DirPath, type_name, date, phone, SearchEmail, notes)
    /\ UNCHANGED shell

NextSearch == AddSearch

SpecSearch == Init /\ [][NextSearch]_vars

(***************************************************************************)
(* SpecAvatar: calls of add_client on folders with and without usable      *)
(* images, and deletes, which leave a stored count behind.                 *)
(***************************************************************************)
AddAvatar ==
    /\ clientSeq < MaxAvatarClients
    /\ \E name \in AvatarNames, folder_path \in AvatarFolders :
          add_client(name, folder_path, AvatarTypeName, DefaultDate, DefaultText,
                     DefaultText, DefaultText)
    /\ UNCHANGED shell

NextAvatar == AddAvatar \/ Delete

SpecAvatar == Init /\ [][NextAvatar]_vars

(***************************************************************************)
(* SpecTypes: the calls that write the store, update_type_color among      *)
(* them; the clock stands still.                                           *)
(***************************************************************************)
UpdateTypeColor ==
    /\ \E type_id \in 1..(typeSeq + 1), color \in TypeColors :
          update_type_color(type_id, color)
    /\ UNCHANGED shell

NextTypes == AddTyped \/ Update \/ Delete \/ UpdateTypeColor

SpecTypes == Init /\ [][NextTypes]_vars

(***************************************************************************)
(* SpecStats: more clients than get_stats reports as recent, added at      *)
(* different times.                                                        *)
(***************************************************************************)
AddStats ==
    /\ clientSeq < MaxStatsClients
    /\ \E type_name \in StatsTypeNames :
          add_client(DefaultName, DirPath, type_name, DefaultDate, DefaultText,
                     DefaultText, DefaultText)
    /\ UNCHANGED shell

DeleteStats ==
    /\ \E client_id \in StatsDeleteIds : delete_client(client_id)
    /\ UNCHANGED shell

GetStats ==
    /\ UNCHANGED <<clients, types, clientSeq, typeSeq, clock>>
    /\ UNCHANGED shell
    /\ \E stats \in get_stats : last' = Ret("get_stats", "none", stats)

NextStats == AddStats \/ DeleteStats \/ GetStats \/ Tick

SpecStats == Init /\ [][NextStats]_vars

(***************************************************************************)
(* SpecConfig: Config built over each document config.json can hold, then  *)
(* calls of get and set.                                                   *)
(***************************************************************************)
ConfigDocuments ==
    {AbsentFile, GarbageFile, JsonFile(None), JsonFile([list |-> <<>>]),
     JsonFile(Dict(<<>>)),
     JsonFile(Dict([key \in {"nas_path"} |-> Str("/n")])),
     JsonFile(Dict([key \in {"card_size"} |-> Str("large")])),
     JsonFile(default_config)}

SetKeys == {"card_size", "auto_backup"}
SetValues == {Str("small"), Bool(FALSE)}

InitConfig ==
    /\ clients = <<>>
    /\ types = <<>>
    /\ clientSeq = 0
    /\ typeSeq = 0
    /\ clock = 0
    /\ last = Ret("init", "none", 0)
    /\ config_file \in ConfigDocuments
    /\ config = load_config(config_file)
    /\ ui = InitUi

ConfigGet(key) ==
    /\ last' = Ret("get", get(key, None).err, get(key, None).val)
    /\ UNCHANGED <<clients, types, clientSeq, typeSeq, clock, config_file, config, ui>>

ConfigSet(key, value) ==
    /\ set(key, value)
    /\ UNCHANGED <<clients, types, clientSeq, typeSeq, clock, ui>>

NextConfig ==
    \/ \E key \in ConfigKeys : ConfigGet(key)
    \/ \E key \in SetKeys, value \in SetValues : ConfigSet(key, value)

SpecConfig == InitConfig /\ [][NextConfig]_vars

(***************************************************************************)
(* SpecWindow: the handlers of the window.                                 *)
(***************************************************************************)
ConfirmAdd ==
    /\ clientSeq < MaxWindowClients
    /\ \E name_entry \in WindowNames, folder_path_var \in WindowFolders,
          type_entry \in WindowTypeNames, date_entry \in WindowDates,
          askyesno \in BOOLEAN :
          confirm_add(name_entry, folder_path_var, type_entry, date_entry, askyesno)

WindowDelete ==
    \E client_id \in 1..MaxWindowClients, askyesno \in BOOLEAN :
       window_delete_client(client_id, askyesno)

OnSearch == \E text \in SearchTexts : on_search(text)

NextWindow == ConfirmAdd \/ WindowDelete \/ OnSearch

SpecWindow == Init /\ [][NextWindow]_vars

(***************************************************************************)
(* Properties.                                                             *)
(***************************************************************************)
TrueCount(cl, t) == Cardinality({c \in DOMAIN cl : cl[c].type_id = t})

(* No client row was ever deleted: every id handed out is still there. *)
NoDelete == DOMAIN clients = 1..clientSeq

(* C1: from the empty store, by add_client calls and update_client calls   *)
(* that change a client's category (no delete_client), every category's    *)
(* client_count is the number of client rows of that category; an update   *)
(* that names another category for a client moves the client there, and    *)
(* the counts of the category left and of the category entered are exact.  *)
C1_CountsFollowCategoryUpdate ==
    [][/\ NoDelete' =>
            \A t \in DOMAIN types' : types'[t].client_count = TrueCount(clients', t)
       /\ \A client_id \in DOMAIN clients, t \in DOMAIN types :
            (/\ NoDelete
             /\ clients[client_id].type_id # t
             /\ update_client(client_id, << <<"type_id", t>> >>))
            => /\ clients'[client_id].type_id = t
               /\ types'[t].client_count = TrueCount(clients', t)
               /\ LET from == clients[client_id].type_id
                  IN types'[from].client_count = TrueCount(clients', from)]_vars

(* C2: delete_client(id) removes the client row with that id and nothing   *)
(* else: every other client row and every category row, client_count       *)
(* included, stays as it was; for an id no client has, nothing changes and *)
(* no error is raised.                                                     *)
C2_DeleteRemovesOnlyThatRow ==
    [][\A client_id \in ClientIds :
          delete_client(client_id) =>
             /\ last'.err = "none"
             /\ DOMAIN clients' = DOMAIN clients \ {client_id}
             /\ \A c \in DOMAIN clients' : clients'[c] = clients[c]
             /\ types' = types]_vars

(* Two clients of one category were added, one was deleted: get_types      *)
(* still reports 2 for the category and get_all_clients the other client.  *)
C2_Witness ==
    /\ last.op = "delete_client"
    /\ clientSeq = 2
    /\ Cardinality(DOMAIN clients) = 1
    /\ \A s \in get_types : Len(s) = 1 /\ s[1].client_count = 2
    /\ \A s \in get_all_clients : Len(s) = 1 /\ s[1].id \in DOMAIN clients

(* C3: a successful add_client(name, folder_path, type_name, date, phone,  *)
(* email, notes) returns an id for which get_client_by_id gives a row with *)
(* those name, folder_path, date, phone, email and notes, with the given   *)
(* type_name, and with created_at equal to updated_at.                     *)
C3_AddThenGetReturnsInputs ==
    [][\A name \in FieldNames, folder_path \in FieldFolders,
          type_name \in FieldTypeNames, date \in FieldDates,
          phone \in FieldPhones, email \in FieldEmails, notes \in FieldNotes :
          (/\ add_client(name, folder_path, type_name, date, phone, email, notes)
           /\ last'.err = "none")
          => LET row == get_client_by_id(last.val)'
             IN /\ row # None
                /\ row.id = last'.val
                /\ row.name = name
                /\ row.folder_path = folder_path
                /\ row.date = date
                /\ row.phone = phone
                /\ row.email = email
                /\ row.notes = notes
                /\ row.type_name = type_name
                /\ row.created_at = row.updated_at]_vars

(* A client was added after the clock moved, with a date, a phone number   *)
(* left out (None), an email and notes, and it is the row its id gives.    *)
C3_Witness ==
    /\ last.op = "add_client"
    /\ last.err = "none"
    /\ clock > 0
    /\ LET row == get_client_by_id(last.val)
       IN /\ row # None
          /\ row.created_at = clock
          /\ row.date # NULL
          /\ row.phone = NULL
          /\ row.email # <<>>
          /\ row.notes # <<>>

(* C4: add_client with a folder_path that does not exist fails with the    *)
(* validation error and changes neither table: no client row is inserted   *)
(* and no category is created, whether or not type_name was seen before.   *)
C4_AbsentFolderChangesNothing ==
    [][\A name \in Names, folder_path \in Folders, type_name \in TypeNames :
          (/\ FsKind(folder_path) = "absent"
           /\ add_client(name, folder_path, type_name, DefaultDate, DefaultText,
                         DefaultText, DefaultText))
          => /\ last'.err = "ValueError"
             /\ clients' = clients
             /\ types' = types
             /\ clientSeq' = clientSeq
             /\ typeSeq' = typeSeq]_vars

(* The call failed on the folder while no category existed at all, so its  *)
(* type_name was unseen, and no category exists after it.                  *)
C4_Witness ==
    /\ last.op = "add_client"
    /\ last.err = "ValueError"
    /\ DOMAIN types = {}
    /\ DOMAIN clients = {}

(* C5: get-or-create is idempotent.  No two category rows have the same    *)
(* name, and no category row is removed or renamed.  An add_client with an *)
(* existing folder and a type_name leaves exactly one category row of      *)
(* exactly that name (letters compared with their case); when the call     *)
(* inserts a client, the client's type_id is the id of that row, which is  *)
(* the id the name had before the call when it had one.                    *)
C5_GetOrCreateIdempotent ==
    [][/\ \A t, u \in DOMAIN types' : types'[t].name = types'[u].name => t = u
       /\ \A t \in DOMAIN types : t \in DOMAIN types' /\ types'[t].name = types[t].name
       /\ \A type_name \in TypeNames \ {NULL} :
            add_client(DefaultName, DirPath, type_name, DefaultDate, DefaultText,
                       DefaultText, DefaultText)
            => LET named == {t \in DOMAIN types' : types'[t].name = type_name}
               IN /\ Cardinality(named) = 1
                  /\ last'.err = "none"
                  /\ clients'[last'.val].type_id \in named
                  /\ \A t \in DOMAIN types : types[t].name = type_name => t \in named]_vars

(* Three clients were added, two under one name and one under the name     *)
(* that differs only in case: two category rows, counts 2 and 1.           *)
C5_Witness ==
    /\ last.op = "add_client"
    /\ last.err = "none"
    /\ Cardinality(DOMAIN clients) = 3
    /\ Cardinality(DOMAIN types) = 2
    /\ \E t \in DOMAIN types : types[t].client_count = 2
    /\ \E c, d \in DOMAIN clients : c < d /\ d < last.val /\
          clients[c].type_id # clients[d].type_id

(* C6: update_client(id, fields) with a non-empty set of mutable fields,   *)
(* for an existing client, succeeds, sets exactly the named fields of that *)
(* client to the given values and updated_at to the current time, and      *)
(* leaves the client's other fields and all other clients as they were.    *)
C6_UpdateSetsNamedFields ==
    [][\A client_id \in DOMAIN clients, kwargs \in KwargsSet \ {<<>>} :
          update_client(client_id, kwargs)
          => LET keys == {kwargs[i][1] : i \in 1..Len(kwargs)}
             IN /\ last'.err = "none"
                /\ DOMAIN clients' = DOMAIN clients
                /\ \A i \in 1..Len(kwargs) :
                      clients'[client_id][kwargs[i][1]] = kwargs[i][2]
                /\ clients'[client_id].updated_at = clock
                /\ \A col \in DOMAIN clients[client_id] \ (keys \cup {"updated_at"}) :
                      clients'[client_id][col] = clients[client_id][col]
                /\ \A c \in DOMAIN clients \ {client_id} : clients'[c] = clients[c]]_vars

(* C7: update_client(id, {}) with no field fails with an error, and the    *)
(* client row, updated_at included, and every other row stay as they were. *)
C7_EmptyUpdateFails ==
    [][\A client_id \in ClientIds :
          update_client(client_id, <<>>)
          => /\ last'.err # "none"
             /\ clients' = clients
             /\ types' = types]_vars

(* The update failed on the statement while a client exists whose          *)
(* updated_at is older than the clock, so a refresh would have shown.      *)
C7_Witness ==
    /\ last.op = "update_client"
    /\ last.err = "OperationalError"
    /\ \E c \in DOMAIN clients : clients[c].updated_at < clock

(* C8: required fields are validated before any mutation: add_client with  *)
(* a missing (None) or empty name, an existing folder and a type_name no   *)
(* category has yet fails with an error and changes neither table.         *)
C8_MissingNameChangesNothing ==
    [][\A name \in {NULL, <<>>}, folder_path \in Folders,
          type_name \in TypeNames \ {NULL} :
          (/\ os_path_exists(folder_path)
           /\ \A t \in DOMAIN types : types[t].name # type_name
           /\ add_client(name, folder_path, type_name, DefaultDate, DefaultText,
                         DefaultText, DefaultText))
          => /\ last'.err # "none"
             /\ clients' = clients
             /\ types' = types]_vars

(* C9: add_client succeeds only for a folder_path that is an existing      *)
(* directory: for a path that is absent or is not a directory (a name and  *)
(* a type_name being given) it fails with the validation error and inserts *)
(* nothing.                                                                *)
C9_OnlyDirectoriesAccepted ==
    [][\A name \in Names \ {NULL, <<>>}, folder_path \in Folders,
          type_name \in TypeNames \ {NULL} :
          (/\ FsKind(folder_path) # "dir"
           /\ add_client(name, folder_path, type_name, DefaultDate, DefaultText,
                         DefaultText, DefaultText))
          => /\ last'.err = "ValueError"
             /\ clients' = clients
             /\ clientSeq' = clientSeq]_vars

(* C10: in every store state search_clients("") returns the same set of    *)
(* client rows as get_all_clients().                                       *)
C10_EmptyKeywordReturnsAll ==
    /\ search_clients(<<>>) # {}
    /\ get_all_clients # {}
    /\ \A s \in search_clients(<<>>), g \in get_all_clients : Range(s) = Range(g)

(* A client without phone number (None) is stored, and the search for ""   *)
(* returns it.                                                             *)
C10_Witness ==
    /\ \E c \in DOMAIN clients : clients[c].phone = NULL
    /\ \E s \in search_clients(<<>>) :
          /\ Len(s) = Cardinality(DOMAIN clients)
          /\ \E i \in DOMAIN s : s[i].phone = NULL

(* s lists its rows by shoot date descending, rows of one date by name. *)
ByDateThenName(s) ==
    \A i, j \in DOMAIN s : i < j =>
       /\ ~SqlLess(s[i].date, s[j].date)
       /\ s[i].date = s[j].date => ~SqlLess(s[j].name, s[i].name)

(* C11: search_clients and get_all_clients order their rows alike: by      *)
(* shoot date descending, and clients of one shoot date by name ascending, *)
(* for every keyword.                                                      *)
C11_SearchOrderedLikeGetAll ==
    /\ \A g \in get_all_clients : ByDateThenName(g)
    /\ \A keyword \in SearchKeywords :
          \A s \in search_clients(keyword) : ByDateThenName(s)

(* keyword is a run of consecutive characters of text, compared exactly. *)
IsSubstring(keyword, text) ==
    /\ text # NULL
    /\ \E i \in 0..(Len(text) - Len(keyword)) :
          SubSeq(text, i + 1, i + Len(keyword)) = keyword

(* keyword occurs in text when letters match whatever their case, _ in the *)
(* keyword stands for any one character and % for any run of characters:   *)
(* p[j] is the number of characters of text passed after keyword[j].       *)
Occurs(keyword, text) ==
    /\ text # NULL
    /\ \E p \in [0..Len(keyword) -> 0..Len(text)] :
          \A j \in 1..Len(keyword) :
             IF keyword[j] = "%"
             THEN p[j] >= p[j - 1]
             ELSE /\ p[j] = p[j - 1] + 1
                  /\ \/ keyword[j] = "_"
                     \/ Fold(keyword[j]) = Fold(text[p[j]])

(* C12 as stated: search_clients(keyword) returns exactly the clients for  *)
(* which keyword is a substring of the name, the phone, the notes or the   *)
(* name of the category.                                                   *)
C12_ExactSubstringMatch ==
    \A keyword \in SearchKeywords :
       /\ search_clients(keyword) # {}
       /\ \A s \in search_clients(keyword) :
             Range(s) = {r \in {JoinRow(c) : c \in DOMAIN clients} :
                           \/ IsSubstring(keyword, r.name)
                           \/ IsSubstring(keyword, r.phone)
                           \/ IsSubstring(keyword, r.notes)
                           \/ IsSubstring(keyword, r.type_name)}

(* C12 amended: search_clients(keyword) returns exactly the clients for    *)
(* which keyword occurs in the name, the phone, the notes or the name of   *)
(* the category, letters matching whatever their case and _ and % in the   *)
(* keyword standing for one character and for any run of characters; a     *)
(* client in which it occurs only in the email, the date or the folder     *)
(* path is not returned, and no client in which it occurs is left out.     *)
C12_MatchesNamePhoneNotesCategory ==
    \A keyword \in SearchKeywords :
       /\ search_clients(keyword) # {}
       /\ \A s \in search_clients(keyword) :
             Range(s) = {r \in {JoinRow(c) : c \in DOMAIN clients} :
                           \/ Occurs(keyword, r.name)
                           \/ Occurs(keyword, r.phone)
                           \/ Occurs(keyword, r.notes)
                           \/ Occurs(keyword, r.type_name)}

(* Two clients are stored; "e" is the email of both and occurs in the      *)
(* notes of one only: the search for "e" returns that one alone.  The      *)
(* search for "A" returns a client whose name holds "a".                   *)
C12_Witness ==
    /\ Cardinality(DOMAIN clients) = 2
    /\ \A c \in DOMAIN clients : clients[c].email = <<"e">>
    /\ \E c \in DOMAIN clients : clients[c].notes = <<>>
    /\ \A s \in search_clients(<<"e">>) : Len(s) = 1 /\ s[1].notes = <<"e">>
    /\ \E s \in search_clients(<<"A">>) : \E i \in DOMAIN s : s[i].name = <<"a", "b">>

(* No thumbnail can be made: the path is no directory (the listing fails), *)
(* the directory lists no image file, the first image file cannot be       *)
(* decoded or resized, or the thumbnail cannot be written.                 *)
NoThumbnail(folder_path, name) ==
    \/ folder_path \in {FilePath, DirPath, BadPath, TruncPath}
    \/ \E i \in DOMAIN name : name[i] = "/"

(* C13: thumbnail generation never fails add_client: when the folder has   *)
(* no image file or a step of the generation fails, _generate_avatar       *)
(* raises nothing and returns the empty string, and add_client inserts the *)
(* client with an empty avatar_path and recounts the category; otherwise   *)
(* the client gets a thumbnail path.                                       *)
C13_ThumbnailIsBestEffort ==
    [][\A name \in AvatarNames, folder_path \in AvatarFolders :
          add_client(name, folder_path, AvatarTypeName, DefaultDate, DefaultText,
                     DefaultText, DefaultText)
          => /\ _generate_avatar(folder_path, name).err = "none"
             /\ last'.err = "none"
             /\ last'.val \in DOMAIN clients' \ DOMAIN clients
             /\ LET row == clients'[last'.val]
                IN /\ row.folder_path = folder_path
                   /\ (row.avatar_path = <<>>) = NoThumbnail(folder_path, name)
                   /\ types'[row.type_id].client_count = TrueCount(clients', row.type_id)]_vars

(* A client was deleted, leaving the count at 1 with no client; then a     *)
(* client of a folder whose first image cannot be decoded was added: it is *)
(* stored without thumbnail and the count is 1 again, not 2.               *)
C13_Witness ==
    /\ last.op = "add_client"
    /\ last.err = "none"
    /\ DOMAIN clients = {2}
    /\ clients[2].folder_path = BadPath
    /\ clients[2].avatar_path = <<>>
    /\ types[clients[2].type_id].client_count = 1

(* C14: client ids are unique and strictly increasing over the life of the *)
(* store, across add_client and delete_client calls: the sequence of the   *)
(* store never goes back and no stored id is above it, so it is at least   *)
(* every id returned so far; each successful add_client returns an id      *)
(* above it, which no client has, and that id becomes the sequence.  The   *)
(* id of a deleted client is therefore never returned again.               *)
C14_IdsStrictlyIncrease ==
    [][/\ clientSeq' >= clientSeq
       /\ \A c \in DOMAIN clients' : c <= clientSeq'
       /\ \A type_name \in TypeNames :
            (/\ add_client(DefaultName, DirPath, type_name, DefaultDate,
                           DefaultText, DefaultText, DefaultText)
             /\ last'.err = "none")
            => /\ last'.val > clientSeq
               /\ last'.val \notin DOMAIN clients
               /\ last'.val \in DOMAIN clients'
               /\ last'.val = clientSeq']_vars

(* Clients 1 and 2 were added, client 2, the newest, was deleted, and the  *)
(* next add_client returned 3.                                             *)
C14_Witness ==
    /\ last.op = "add_client"
    /\ last.err = "none"
    /\ last.val = 3
    /\ DOMAIN clients = {1, 3}

(* C15: get_stats is a pure read: no client or category row changes, and   *)
(* it reports total_clients, the number of client rows; type_distribution, *)
(* the (name, client_count) of every category, each once; recent_clients,  *)
(* five (name, created_at) rows, or all when there are fewer clients, of   *)
(* different clients, newest first, no client left out being newer than a  *)
(* listed one.  (A call that returns what the call before it returned      *)
(* leaves the whole state as it was.)                                      *)
StatsRow(c) == <<clients[c].name, clients[c].created_at>>

C15_GetStatsReports ==
    [][(last' # last /\ GetStats) =>
         LET stats == last'.val
             recent == stats.recent_clients
             n == Cardinality(DOMAIN clients)
             Listed(row) == Cardinality({i \in DOMAIN recent : recent[i] = row})
             Stored(row) == Cardinality({c \in DOMAIN clients : StatsRow(c) = row})
         IN /\ UNCHANGED <<clients, types, clientSeq, typeSeq>>
            /\ stats.total_clients = n
            /\ Len(stats.type_distribution) = Cardinality(DOMAIN types)
            /\ Range(stats.type_distribution)
                  = {<<types[t].name, types[t].client_count>> : t \in DOMAIN types}
            /\ Len(recent) = IF n < RecentLimit THEN n ELSE RecentLimit
            /\ \A i, j \in DOMAIN recent : i < j => recent[i][2] >= recent[j][2]
            /\ \A i \in DOMAIN recent : Listed(recent[i]) <= Stored(recent[i])
            /\ \A c \in DOMAIN clients :
                  Listed(StatsRow(c)) < Stored(StatsRow(c))
                  => \A i \in DOMAIN recent : recent[i][2] >= clients[c].created_at]_vars

(* get_stats was called on six clients, in two categories, and left out    *)
(* of the five recent ones the client that is older than they are.         *)
C15_Witness ==
    /\ last.op = "get_stats"
    /\ Cardinality(DOMAIN clients) = 6
    /\ last.val.total_clients = 6
    /\ Len(last.val.type_distribution) = 2
    /\ Len(last.val.recent_clients) = RecentLimit
    /\ \E c \in DOMAIN clients :
          clients[c].created_at < last.val.recent_clients[RecentLimit][2]

(* C16: get_types returns every category exactly once, in non-increasing   *)
(* order of the stored client_count, and the listings get_stats can give   *)
(* as type_distribution are the listings get_types can give, each row cut  *)
(* to (name, client_count): the same order, up to the order of categories  *)
(* of one client_count, which the store chooses.                           *)
C16_CategoriesByCount ==
    /\ get_types # {}
    /\ \A s \in get_types :
          /\ Len(s) = Cardinality(DOMAIN types)
          /\ {s[i].id : i \in DOMAIN s} = DOMAIN types
          /\ \A i \in DOMAIN s : /\ s[i].name = types[s[i].id].name
                                 /\ s[i].client_count = types[s[i].id].client_count
          /\ \A i, j \in DOMAIN s : i < j => s[i].client_count >= s[j].client_count
    /\ {stats.type_distribution : stats \in get_stats}
          = {[i \in DOMAIN s |-> <<s[i].name, s[i].client_count>>] : s \in get_types}

(* Two categories, the one created later with more clients: it comes first *)
(* in get_types and in type_distribution.                                  *)
C16_Witness ==
    /\ DOMAIN types = {1, 2}
    /\ types[2].client_count > types[1].client_count
    /\ \A s \in get_types : s[1].id = 2
    /\ \A stats \in get_stats : stats.type_distribution[1][1] = types[2].name

(* C17: get_client_by_id(id) is the joined row of the client with that id  *)
(* when there is one, and None, with no exception, when there is none,     *)
(* also for the id of a client that was deleted.                           *)
C17_GetClientById ==
    \A client_id \in 0..(MaxClients + 1) :
       IF client_id \in DOMAIN clients
       THEN LET row == get_client_by_id(client_id)
                c == clients[client_id]
            IN /\ row # None
               /\ row.id = client_id
               /\ \A col \in DOMAIN c : row[col] = c[col]
               /\ row.type_name = types[c.type_id].name
               /\ row.type_color = types[c.type_id].color
       ELSE get_client_by_id(client_id) = None

(* A client was deleted, another is still there: the deleted id gives None *)
(* and the other id its row.                                               *)
C17_Witness ==
    /\ last.op = "delete_client"
    /\ \E gone \in 1..clientSeq, kept \in DOMAIN clients :
          /\ gone \notin DOMAIN clients
          /\ get_client_by_id(gone) = None
          /\ get_client_by_id(kept).id = kept

(* C18 as stated: for every recognized key and every content of the        *)
(* persisted document, Config.get(key) does not fail and returns the       *)
(* persisted value when the document has the key, and the default of       *)
(* load_config for that key when it has not.                               *)
C18_LookupFallsBackToDefault ==
    [][\A key \in ConfigKeys :
          ConfigGet(key)
          => /\ last'.err = "none"
             /\ last'.val = IF /\ "json" \in DOMAIN config_file
                               /\ "dict" \in DOMAIN config_file.json
                               /\ key \in DOMAIN config_file.json.dict
                            THEN config_file.json.dict[key]
                            ELSE default_config.dict[key]]_vars

(* C19: every client's type_id is the id of a category, and no step        *)
(* removes a category or changes the name of one, along add_client,        *)
(* update_client, delete_client and update_type_color calls.               *)
C19_ReferentialIntegrity ==
    [][/\ \A c \in DOMAIN clients' : clients'[c].type_id \in DOMAIN types'
       /\ DOMAIN types \subseteq DOMAIN types'
       /\ \A t \in DOMAIN types : types'[t].name = types[t].name]_vars

(* update_type_color recoloured a category that a delete_client had left   *)
(* without clients, next to a category that has clients.                   *)
C19_Witness ==
    /\ last.op = "update_type_color"
    /\ DOMAIN types = {1, 2}
    /\ clients # <<>>
    /\ \E t \in DOMAIN types :
          /\ types[t].color \in TypeColors
          /\ \A c \in DOMAIN clients : clients[c].type_id # t

(* C20 as stated: on every search event, a search text that is blank       *)
(* after trimming makes the window call get_all_clients only and show its  *)
(* clients in the grid; any other text makes it call search_clients with   *)
(* the trimmed text, which is not empty, and show exactly the clients of   *)
(* that result, in its order.                                              *)
Blank(text) == \A i \in DOMAIN text : text[i] \in Whitespace

Trimmed(text) ==
    LET ink == {i \in DOMAIN text : text[i] \notin Whitespace}
    IN IF ink = {} THEN <<>>
       ELSE SubSeq(text, CHOOSE i \in ink : \A j \in ink : i <= j,
                         CHOOSE i \in ink : \A j \in ink : j <= i)

Shows(grid, result) ==
    /\ Len(grid) = Len(result)
    /\ \A i \in DOMAIN grid : grid[i].id = result[i].id /\ grid[i].name = result[i].name

C20_SearchBoxDrivesGrid ==
    [][\A text \in SearchTexts :
          on_search(text)
          => IF Blank(text)
             THEN /\ ui'.calls = <<Call("get_all_clients")>>
                  /\ \E result \in get_all_clients : Shows(ui'.grid, result)
             ELSE /\ Trimmed(text) # <<>>
                  /\ ui'.calls = <<CallWith("search_clients", Trimmed(text))>>
                  /\ \E result \in search_clients(Trimmed(text)) :
                        Shows(ui'.grid, result)]_vars
====
